---- MODULE Spec2Model ----
(***************************************************************************)
(* Model of src/server.js: the in-memory session / room / invite           *)
(* coordinator of the chat relay.  One action per socket.io handler; each  *)
(* handler runs to completion (single-threaded event loop).                *)
(*                                                                         *)
(* The transport (socket.io) is a collaborator outside the source.  It is  *)
(* modelled by what the source relies on: a socket has an id, passes the   *)
(* io.use middleware, then the "connection" handler; it may close at any   *)
(* time, which detaches it from every broadcast group; the "disconnect"    *)
(* handler of a registered socket runs afterwards.  The source itself      *)
(* tests for a registry entry whose socket is gone or not connected        *)
(* (lines 51-52, 183-184), so the model keeps that window open: a closed   *)
(* socket whose "disconnect" handler has not yet run is "stale".           *)
(***************************************************************************)
EXTENDS Integers, FiniteSets, Sequences, TLC

\* ---- bounds of the model ------------------------------------------------
NumIds == 2
NumRooms == 1
MaxConns == 2
MaxInvites == 1

Ids == 1..NumIds            \* identities (already trimmed and capped)
Rooms == 1..NumRooms        \* room keys (already trimmed and capped)
Conns == 1..MaxConns        \* socket ids
Tokens == 1..MaxInvites     \* invite ids

\* ---- values of the JavaScript payloads ----------------------------------
Undef == "undefined"
Null == "null"
NoId == 0
NoRoomKey == 0
NoInvite == 0

\* A roomId as a client sends it: a key, possibly surrounded by blanks
\* (pad), or missing (key = NoRoomKey).
RawRoomIds == {[key |-> k, pad |-> FALSE] : k \in Rooms \cup {NoRoomKey}}
                \cup {[key |-> k, pad |-> TRUE] : k \in {r \in Rooms : r = NumRooms}}
PwCreate == {Undef, "s"}
PwJoin == {Undef, "", "s", "w"}

Truthy(v) == v \notin {Undef, ""}
\* String(roomId).trim().slice(0, 64)
NormRoomId(raw) == raw.key
\* a roomId used as a Map key without trimming (room:leave, room:send):
\* a padded key equals no stored key, since stored keys are trimmed
RawRoomKey(raw) == IF raw.pad THEN NoRoomKey ELSE raw.key
RoomIdMissing(raw) == raw.key = NoRoomKey
\* password ? String(password) : null
PassOf(password) == IF Truthy(password) THEN password ELSE Null
\* String(password || "")
PasswordString(password) == IF Truthy(password) THEN password ELSE ""

\* ---- error strings of the acknowledgments --------------------------------
ErrMissingId == "Missing id"
ErrIdInUse == "ID dang duoc su dung"
ErrRoomIdRequired == "roomId required"
ErrRoomExists == "ROOM_EXISTS"
ErrRoomNotFound == "ROOM_NOT_FOUND"
ErrAlreadyInRoom == "ALREADY_IN_ROOM"
ErrWrongPassword == "WRONG_PASSWORD"
ErrInviteFields == "roomId,peerId required"
ErrNotInRoom == "Ban chua o phong"
ErrPeerAlreadyInRoom == "PEER_ALREADY_IN_ROOM"
ErrPeerOffline == "Peer offline/khong ton tai"
ErrInviteNotFound == "INVITE_NOT_FOUND"
ErrUnauthorized == "UNAUTHORIZED"
ErrPartyOffline == "Mot trong hai ben da offline"
ErrSendFields == "roomId,text required"
ErrNotMember == "Ban khong o trong phong"
NoError == ""

\* ---- JavaScript Map operations -------------------------------------------
MapSet(m, k, v) == [x \in DOMAIN m \cup {k} |-> IF x = k THEN v ELSE m[x]]
MapDelete(m, k) == [x \in DOMAIN m \ {k} |-> m[x]]
MapHas(m, k) == k \in DOMAIN m
EmptyMap == [x \in {} |-> 0]

VARIABLES
  online,      \* Map id -> socket id                          (line 24)
  rooms,       \* Map roomId -> [members, pass]                (line 27)
  invites,     \* Map inviteId -> [roomId, fromId, toId]       (line 29)
  userRooms,   \* Map userId -> Set<roomId>                    (line 32)
  pc,          \* per socket: "idle", "admitted", "registered", "stale"
  sockId,      \* per socket: socket.data.id
  sockRooms,   \* per socket: broadcast groups it is attached to
  nextInvite,  \* number of invite ids generated so far
  last,        \* the last handler run: its caller, acknowledgment and emits
  consumed,    \* history: the invite ids an accept or reject by the target used up
  voided       \* history: the pending invite ids whose room was deleted meanwhile

vars == <<online, rooms, invites, userRooms, pc, sockId, sockRooms, nextInvite, last,
          consumed, voided>>

\* ---- the transport as the source sees it ---------------------------------
\* io.sockets.sockets.get(sid) is defined and .connected
SocketLive(sid) == pc[sid] = "registered"
\* the sockets io.to(roomId) reaches
Attached(roomId) == {c \in Conns : roomId \in sockRooms[c]}
\* the sockets io.to(sid) reaches: the socket itself while it is open
ToSocket(sid) == IF SocketLive(sid) THEN {sid} ELSE {}
\* socket.join(roomId) on the socket sid, skipped when the socket is gone (?.)
SocketJoin(sr, sid, roomId) ==
  IF SocketLive(sid) THEN [sr EXCEPT ![sid] = @ \cup {roomId}] ELSE sr

\* one emit of a handler: the event, the kind of its text, its room and the
\* sockets it reaches
Emit(ev, roomId, to) == [ev |-> ev, room |-> roomId, to |-> to]

\* what a handler run leaves for its observers: the caller, the payload, the
\* (roomId, inviteId, password, peerId, length of the text), the acknowledgment (ok,
\* error, members, locked, exists) and the emits
Event(op, c, me, roomId, inviteId, ok, error, members, out) ==
  [op |-> op, conn |-> c, me |-> me, room |-> roomId, invite |-> inviteId,
   ok |-> ok, error |-> error, members |-> members, locked |-> FALSE,
   exists |-> FALSE, password |-> Undef, peer |-> NoId, text |-> 0, out |-> out]

AckError(op, c, roomId, inviteId, error) ==
  Event(op, c, sockId[c], roomId, inviteId, FALSE, error, {}, {})

\* history: the invites still pending after a step whose room was deleted at
\* some time since they were issued
VoidedBy(roomsAfter, invitesAfter) ==
  {t \in DOMAIN invitesAfter : \/ t \in voided
                               \/ /\ MapHas(rooms, invites[t].roomId)
                                  /\ ~MapHas(roomsAfter, invites[t].roomId)}

\* const getUserRooms = (uid) => ...: the index after the access
getUserRooms(ur, uid) == IF MapHas(ur, uid) THEN ur ELSE MapSet(ur, uid, {})

\* inRoom(roomId, userId)
inRoom(roomId, userId) == MapHas(rooms, roomId) /\ userId \in rooms[roomId].members

Init ==
  /\ online = EmptyMap
  /\ rooms = EmptyMap
  /\ invites = EmptyMap
  /\ userRooms = EmptyMap
  /\ pc = [c \in Conns |-> "idle"]
  /\ sockId = [c \in Conns |-> NoId]
  /\ sockRooms = [c \in Conns |-> {}]
  /\ nextInvite = 0
  /\ last = Event("init", 0, NoId, NoRoomKey, NoInvite, TRUE, NoError, {}, {})
  /\ consumed = {}
  /\ voided = {}

\* ---- io.use: unique-id middleware (lines 45-57) --------------------------
MiddlewareAdmits(id) ==
  /\ id # NoId
  /\ ~(MapHas(online, id) /\ SocketLive(online[id]))

Middleware(c, id) ==
  /\ pc[c] = "idle"
  /\ IF id = NoId
       THEN /\ last' = Event("handshake", c, id, NoRoomKey, NoInvite, FALSE, ErrMissingId, {}, {})
            /\ UNCHANGED <<pc, sockId>>
       ELSE IF MiddlewareAdmits(id)
         THEN /\ pc' = [pc EXCEPT ![c] = "admitted"]
              /\ sockId' = [sockId EXCEPT ![c] = id]
              /\ last' = Event("handshake", c, id, NoRoomKey, NoInvite, TRUE, NoError, {}, {})
         ELSE /\ last' = Event("handshake", c, id, NoRoomKey, NoInvite, FALSE, ErrIdInUse, {}, {})
              /\ UNCHANGED <<pc, sockId>>
  /\ UNCHANGED <<online, rooms, invites, userRooms, sockRooms, nextInvite, consumed, voided>>

\* ---- io.on("connection"): registration (lines 59-69) ---------------------
\* (mutant) the anti-race check dropped: every admitted socket registers
AntiRaceIgnored(c, me) == FALSE

\* prev && prev !== socket.id
AntiRaceRejects(c, me) == MapHas(online, me) /\ online[me] # c

\* (mutant) the refused socket releases the registry entry of its identity,
\* as a "disconnect" handler installed before the check would
ConnectionRefusalReleases(c) ==
  /\ pc[c] = "admitted"
  /\ LET me == sockId[c] IN
     IF AntiRaceRejects(c, me)
       THEN /\ pc' = [pc EXCEPT ![c] = "idle"]
            /\ sockId' = [sockId EXCEPT ![c] = NoId]
            /\ last' = Event("connection", c, me, NoRoomKey, NoInvite, FALSE, ErrIdInUse,
                             {}, {Emit("user:error", NoRoomKey, {c})})
            /\ online' = MapDelete(online, me)
       ELSE /\ online' = MapSet(online, me, c)
            /\ pc' = [pc EXCEPT ![c] = "registered"]
            /\ last' = Event("connection", c, me, NoRoomKey, NoInvite, TRUE, NoError,
                             {}, {Emit("user:registered", NoRoomKey, {c})})
            /\ UNCHANGED sockId
  /\ UNCHANGED <<rooms, invites, userRooms, sockRooms, nextInvite, consumed, voided>>

Connection(c) ==
  /\ pc[c] = "admitted"
  /\ LET me == sockId[c] IN
     IF AntiRaceRejects(c, me)
       THEN \* user:error, then socket.disconnect(true); no handler was installed
            /\ pc' = [pc EXCEPT ![c] = "idle"]
            /\ sockId' = [sockId EXCEPT ![c] = NoId]
            /\ last' = Event("connection", c, me, NoRoomKey, NoInvite, FALSE, ErrIdInUse,
                             {}, {Emit("user:error", NoRoomKey, {c})})
            /\ UNCHANGED online
       ELSE /\ online' = MapSet(online, me, c)
            /\ pc' = [pc EXCEPT ![c] = "registered"]
            /\ last' = Event("connection", c, me, NoRoomKey, NoInvite, TRUE, NoError,
                             {}, {Emit("user:registered", NoRoomKey, {c})})
            /\ UNCHANGED sockId
  /\ UNCHANGED <<rooms, invites, userRooms, sockRooms, nextInvite, consumed, voided>>

\* ---- the transport closes a socket ---------------------------------------
\* An admitted socket that closes before "connection" never enters the
\* coordinator.  A registered socket leaves every broadcast group and its
\* "disconnect" handler is then due.
Close(c) ==
  /\ pc[c] \in {"admitted", "registered"}
  /\ pc' = [pc EXCEPT ![c] = IF pc[c] = "registered" THEN "stale" ELSE "idle"]
  /\ sockId' = [sockId EXCEPT ![c] = IF pc[c] = "registered" THEN @ ELSE NoId]
  /\ sockRooms' = [sockRooms EXCEPT ![c] = {}]
  /\ last' = Event("close", c, sockId[c], NoRoomKey, NoInvite, TRUE, NoError, {}, {})
  /\ UNCHANGED <<online, rooms, invites, userRooms, nextInvite, consumed, voided>>

\* every room handler is installed by "connection" and runs for an open socket
Serving(c) == pc[c] = "registered"

\* ---- room:exists (lines 72-76) -------------------------------------------
RoomExists(c, raw) ==
  /\ Serving(c)
  /\ IF RoomIdMissing(raw)
       THEN last' = AckError("room:exists", c, NoRoomKey, NoInvite, ErrRoomIdRequired)
       ELSE LET roomId == raw.key IN   \* String(roomId).trim()
            last' = [Event("room:exists", c, sockId[c], roomId, NoInvite, TRUE, NoError, {}, {})
                       EXCEPT !.exists = MapHas(rooms, roomId),
                              !.locked = MapHas(rooms, roomId) /\ rooms[roomId].pass # Null]
  /\ UNCHANGED <<online, rooms, invites, userRooms, pc, sockId, sockRooms, nextInvite, consumed, voided>>

\* ---- room:create (lines 79-97) -------------------------------------------
RoomCreate(c, raw, password) ==
  /\ Serving(c)
  /\ LET me == sockId[c]
         roomId == NormRoomId(raw)
         pass == PassOf(password)
     IN
     IF RoomIdMissing(raw)
       THEN /\ last' = AckError("room:create", c, NoRoomKey, NoInvite, ErrRoomIdRequired)
            /\ UNCHANGED <<rooms, sockRooms, userRooms>>
       ELSE IF MapHas(rooms, roomId)
         THEN /\ last' = AckError("room:create", c, roomId, NoInvite, ErrRoomExists)
              /\ UNCHANGED <<rooms, sockRooms, userRooms>>
         ELSE /\ rooms' = MapSet(rooms, roomId, [members |-> {me}, pass |-> pass])
              /\ sockRooms' = [sockRooms EXCEPT ![c] = @ \cup {roomId}]
              /\ userRooms' = [getUserRooms(userRooms, me) EXCEPT ![me] = @ \cup {roomId}]
              /\ last' = [Event("room:create", c, me, roomId, NoInvite, TRUE, NoError, {me},
                                {Emit("system:created", roomId, Attached(roomId) \cup {c})})
                            EXCEPT !.locked = pass # Null]
  /\ UNCHANGED <<online, invites, pc, sockId, nextInvite, consumed, voided>>

\* ---- room:join (lines 100-124) -------------------------------------------
\* (mutant) an unlocked room demands an empty password
PasswordRefusedUnlessEmpty(r, password) ==
  PasswordString(password) # (IF r.pass = Null THEN "" ELSE r.pass)

\* r.pass && String(password || "") !== r.pass
PasswordRefused(r, password) == r.pass # Null /\ PasswordString(password) # r.pass

\* (mutant) the password is checked before the membership
JoinErrorPasswordFirst(r, me, password) ==
  IF PasswordRefused(r, password) THEN ErrWrongPassword
  ELSE IF me \in r.members THEN ErrAlreadyInRoom
  ELSE NoError

\* the checks of lines 107-114 on an existing room, in their order
JoinError(r, me, password) ==
  IF me \in r.members THEN ErrAlreadyInRoom
  ELSE IF PasswordRefused(r, password) THEN ErrWrongPassword
  ELSE NoError

RoomJoin(c, raw, password) ==
  /\ Serving(c)
  /\ LET me == sockId[c]
         roomId == NormRoomId(raw)
     IN
     IF RoomIdMissing(raw)
       THEN /\ last' = AckError("room:join", c, NoRoomKey, NoInvite, ErrRoomIdRequired)
            /\ UNCHANGED <<rooms, sockRooms>>
       ELSE IF ~MapHas(rooms, roomId)
         THEN /\ last' = [AckError("room:join", c, roomId, NoInvite, ErrRoomNotFound)
                            EXCEPT !.password = password]
              /\ UNCHANGED <<rooms, sockRooms>>
         ELSE IF JoinError(rooms[roomId], me, password) # NoError
           THEN /\ last' = [AckError("room:join", c, roomId, NoInvite,
                                     JoinError(rooms[roomId], me, password))
                              EXCEPT !.password = password]
                /\ UNCHANGED <<rooms, sockRooms>>
           ELSE /\ rooms' = [rooms EXCEPT ![roomId].members = @ \cup {me}]
                /\ sockRooms' = [sockRooms EXCEPT ![c] = @ \cup {roomId}]
                /\ last' = [Event("room:join", c, me, roomId, NoInvite, TRUE, NoError,
                                  rooms[roomId].members \cup {me},
                                  {Emit("system:joined", roomId, Attached(roomId) \cup {c})})
                              EXCEPT !.locked = rooms[roomId].pass # Null,
                                     !.password = password]
  /\ UNCHANGED <<online, invites, userRooms, pc, sockId, nextInvite, consumed, voided>>

\* ---- room:invite (lines 127-161) -----------------------------------------
\* (mutant) the target's presence is checked before its membership
InviteErrorOfflineFirst(me, roomId, peerId) ==
  IF ~MapHas(rooms, roomId) THEN ErrRoomNotFound
  ELSE IF me \notin rooms[roomId].members THEN ErrNotInRoom
  ELSE IF ~MapHas(online, peerId) THEN ErrPeerOffline
  ELSE IF peerId \in rooms[roomId].members THEN ErrPeerAlreadyInRoom
  ELSE NoError

\* the checks of lines 133-145, in their order
InviteError(me, roomId, peerId) ==
  IF ~MapHas(rooms, roomId) THEN ErrRoomNotFound
  ELSE IF me \notin rooms[roomId].members THEN ErrNotInRoom
  ELSE IF peerId \in rooms[roomId].members THEN ErrPeerAlreadyInRoom
  ELSE IF ~MapHas(online, peerId) THEN ErrPeerOffline
  ELSE NoError

RoomInvite(c, raw, peerId) ==
  /\ Serving(c)
  /\ LET me == sockId[c]
         roomId == NormRoomId(raw)
         inviteId == nextInvite + 1     \* a fresh id (line 147)
     IN
     IF RoomIdMissing(raw) \/ peerId = NoId
       THEN /\ last' = AckError("room:invite", c, NoRoomKey, NoInvite, ErrInviteFields)
            /\ UNCHANGED <<invites, nextInvite>>
       ELSE IF InviteError(me, roomId, peerId) # NoError
         THEN /\ last' = [AckError("room:invite", c, roomId, NoInvite,
                                   InviteError(me, roomId, peerId))
                            EXCEPT !.peer = peerId]
              /\ UNCHANGED <<invites, nextInvite>>
         ELSE /\ nextInvite < MaxInvites
              /\ nextInvite' = inviteId
              /\ invites' = MapSet(invites, inviteId,
                                   [roomId |-> roomId, fromId |-> me, toId |-> peerId])
              /\ last' = [Event("room:invite", c, me, roomId, inviteId, TRUE, NoError, {},
                                {Emit("room:incoming", roomId, ToSocket(online[peerId]))})
                            EXCEPT !.peer = peerId]
  /\ UNCHANGED <<online, rooms, userRooms, pc, sockId, sockRooms, consumed, voided>>

\* ---- room:accept (lines 163-203) -----------------------------------------
\* (mutant) the caller is not compared with the invite's target
AcceptErrorNoTargetCheck(me, inviteId) ==
  IF ~MapHas(invites, inviteId) THEN ErrInviteNotFound
  ELSE IF ~MapHas(rooms, invites[inviteId].roomId) THEN ErrRoomNotFound
  ELSE IF ~MapHas(online, invites[inviteId].fromId)
            \/ ~MapHas(online, invites[inviteId].toId) THEN ErrPartyOffline
  ELSE NoError

\* the checks of lines 164-179, in their order
AcceptError(me, inviteId) ==
  IF ~MapHas(invites, inviteId) THEN ErrInviteNotFound
  ELSE IF invites[inviteId].toId # me THEN ErrUnauthorized
  ELSE IF ~MapHas(rooms, invites[inviteId].roomId) THEN ErrRoomNotFound
  ELSE IF ~MapHas(online, invites[inviteId].fromId)
            \/ ~MapHas(online, invites[inviteId].toId) THEN ErrPartyOffline
  ELSE NoError

\* the error returns that discard the invite (lines 170, 177)
AcceptDiscards(error) == error \in {ErrRoomNotFound, ErrPartyOffline}

\* (mutant) only the target is added
AcceptMembersTargetOnly(r, inv) == r.members \cup {inv.toId}

\* r.members after lines 181-182
AcceptMembers(r, inv) == r.members \cup {inv.fromId, inv.toId}

\* the sockets' groups after lines 183-184
AcceptJoins(inv) ==
  SocketJoin(SocketJoin(sockRooms, online[inv.fromId], inv.roomId),
             online[inv.toId], inv.roomId)

\* userRooms after lines 187-188
AcceptIndex(inv) ==
  LET ur1 == [getUserRooms(userRooms, inv.fromId) EXCEPT ![inv.fromId] = @ \cup {inv.roomId}]
  IN [getUserRooms(ur1, inv.toId) EXCEPT ![inv.toId] = @ \cup {inv.roomId}]

\* (mutant) the accepted invite stays pending
InvitesKeptAfterAccept(inviteId) == invites

\* invites after line 190
InvitesAfterAccept(inviteId) == MapDelete(invites, inviteId)

RoomAccept(c, inviteId) ==
  /\ Serving(c)
  /\ LET me == sockId[c]
         error == AcceptError(me, inviteId)
     IN
     IF error = ErrInviteNotFound
       THEN /\ last' = AckError("room:accept", c, NoRoomKey, inviteId, error)
            /\ UNCHANGED <<rooms, invites, userRooms, sockRooms, consumed>>
       ELSE IF error = ErrUnauthorized
         THEN /\ last' = AckError("room:accept", c, invites[inviteId].roomId, inviteId, error)
              /\ UNCHANGED <<rooms, invites, userRooms, sockRooms, consumed>>
         ELSE IF AcceptDiscards(error)
           THEN /\ invites' = MapDelete(invites, inviteId)
                /\ consumed' = consumed \cup {inviteId}
                /\ last' = AckError("room:accept", c, invites[inviteId].roomId, inviteId, error)
                /\ UNCHANGED <<rooms, userRooms, sockRooms>>
           ELSE LET inv == invites[inviteId]
                    members == AcceptMembers(rooms[inv.roomId], inv)
                    joined == AcceptJoins(inv)
                IN
                /\ rooms' = [rooms EXCEPT ![inv.roomId].members = members]
                /\ sockRooms' = joined
                /\ userRooms' = AcceptIndex(inv)
                /\ invites' = InvitesAfterAccept(inviteId)
                /\ consumed' = consumed \cup {inviteId}
                /\ last' = [Event("room:accept", c, me, inv.roomId, inviteId, TRUE, NoError,
                                  members,
                                  {Emit("system:joined-by-invite", inv.roomId,
                                        {s \in Conns : inv.roomId \in joined[s]})})
                              EXCEPT !.locked = rooms[inv.roomId].pass # Null]
  /\ voided' = VoidedBy(rooms', invites')
  /\ UNCHANGED <<online, pc, sockId, nextInvite>>

\* ---- room:reject (lines 205-218) -----------------------------------------
\* (mutant) any caller may reject a pending invite
RejectAppliesAnyCaller(me, inviteId) == MapHas(invites, inviteId)

\* inv && inv.toId === me
RejectApplies(me, inviteId) == MapHas(invites, inviteId) /\ invites[inviteId].toId = me

RoomReject(c, inviteId) ==
  /\ Serving(c)
  /\ LET me == sockId[c] IN
     IF RejectApplies(me, inviteId)
       THEN LET inv == invites[inviteId] IN
            /\ invites' = MapDelete(invites, inviteId)
            /\ consumed' = consumed \cup {inviteId}
            /\ last' = Event("room:reject", c, me, NoRoomKey, inviteId, TRUE, NoError, {},
                             IF MapHas(online, inv.fromId)
                               THEN {Emit("room:rejected", NoRoomKey, ToSocket(online[inv.fromId]))}
                               ELSE {})
       ELSE /\ last' = Event("room:reject", c, me, NoRoomKey, inviteId, TRUE, NoError, {}, {})
            /\ UNCHANGED <<invites, consumed>>
  /\ voided' = VoidedBy(rooms, invites')
  /\ UNCHANGED <<online, rooms, userRooms, pc, sockId, sockRooms, nextInvite>>

\* ---- room:leave (lines 221-241) ------------------------------------------
\* (mutant) the emptied room is kept
RoomsAfterLeaveKeepsEmpty(roomId, me) == [rooms EXCEPT ![roomId].members = @ \ {me}]

\* rooms after lines 225 and 238
RoomsAfterLeave(roomId, me) ==
  IF rooms[roomId].members \ {me} = {}
    THEN MapDelete(rooms, roomId)
    ELSE [rooms EXCEPT ![roomId].members = @ \ {me}]

\* (mutant) the leaving socket stays in the room's broadcast group
SocketLeaveSkipped(sr, sid, roomId) == sr

\* socket.leave(roomId) on the socket sid (line 226)
SocketLeave(sr, sid, roomId) == [sr EXCEPT ![sid] = @ \ {roomId}]

RoomLeave(c, raw) ==
  /\ Serving(c)
  /\ LET me == sockId[c]
         roomId == RawRoomKey(raw)      \* used as sent, not trimmed
     IN
     IF RoomIdMissing(raw)
       THEN /\ last' = AckError("room:leave", c, NoRoomKey, NoInvite, ErrRoomIdRequired)
            /\ UNCHANGED <<rooms, userRooms, sockRooms>>
       ELSE IF MapHas(rooms, roomId) /\ me \in rooms[roomId].members
         THEN LET detached == SocketLeave(sockRooms, c, roomId) IN
              /\ rooms' = RoomsAfterLeave(roomId, me)
              /\ sockRooms' = detached
              /\ userRooms' = [getUserRooms(userRooms, me) EXCEPT ![me] = @ \ {roomId}]
              /\ last' = Event("room:leave", c, me, roomId, NoInvite, TRUE, NoError, {},
                               {Emit("system:left", roomId,
                                     {s \in Conns : roomId \in detached[s]})})
         ELSE /\ last' = Event("room:leave", c, me, roomId, NoInvite, TRUE, NoError, {}, {})
              /\ UNCHANGED <<rooms, userRooms, sockRooms>>
  /\ voided' = VoidedBy(rooms', invites)
  /\ UNCHANGED <<online, invites, pc, sockId, nextInvite, consumed>>

\* ---- room:send (lines 244-259) -------------------------------------------
MaxTextLen == 4000
TextLens == {0, MaxTextLen + 1}
\* String(text).slice(0, 4000), as the length of the result
SliceLen(len) == IF len > MaxTextLen THEN MaxTextLen ELSE len

RoomSend(c, raw, textLen) ==
  /\ Serving(c)
  /\ LET me == sockId[c]
         roomId == RawRoomKey(raw)      \* used as sent, not trimmed
     IN
     IF RoomIdMissing(raw) \/ textLen = 0
       THEN last' = AckError("room:send", c, NoRoomKey, NoInvite, ErrSendFields)
       ELSE IF ~MapHas(rooms, roomId) \/ me \notin rooms[roomId].members
         THEN last' = AckError("room:send", c, roomId, NoInvite, ErrNotMember)
         ELSE last' = [Event("room:send", c, me, roomId, NoInvite, TRUE, NoError, {},
                             {Emit("room:message", roomId, Attached(roomId))})
                         EXCEPT !.text = SliceLen(textLen)]
  /\ UNCHANGED <<online, rooms, invites, userRooms, pc, sockId, sockRooms, nextInvite, consumed, voided>>

\* ---- "disconnect" (lines 262-283) ----------------------------------------
\* the rooms of the index entry that still exist: the loop body runs for these
CascadeRooms(me) ==
  IF MapHas(userRooms, me) THEN userRooms[me] \cap DOMAIN rooms ELSE {}

\* (mutant) every room of the index is deleted, whoever is left in it
RoomsAfterDisconnectAlwaysDeletes(me) ==
  [r \in DOMAIN rooms \ CascadeRooms(me) |-> rooms[r]]

\* rooms after the loop of lines 266-276
RoomsAfterDisconnect(me) ==
  LET urs == CascadeRooms(me)
      kept == {r \in DOMAIN rooms : ~(r \in urs /\ rooms[r].members \ {me} = {})}
  IN [r \in kept |-> IF r \in urs
                       THEN [rooms[r] EXCEPT !.members = @ \ {me}]
                       ELSE rooms[r]]

\* (mutant) only the invites the identity proposed are discarded
InvitesAfterDisconnectProposerOnly(me) ==
  [i \in {j \in DOMAIN invites : invites[j].fromId # me} |-> invites[i]]

\* (mutant) only the invites addressed to the identity are discarded
InvitesAfterDisconnectTargetOnly(me) ==
  [i \in {j \in DOMAIN invites : invites[j].toId # me} |-> invites[i]]

\* invites after the loop of lines 280-282
InvitesAfterDisconnect(me) ==
  [i \in {j \in DOMAIN invites : invites[j].fromId # me /\ invites[j].toId # me}
     |-> invites[i]]

Disconnect(c) ==
  /\ pc[c] = "stale"
  /\ LET me == sockId[c] IN
     /\ online' = IF MapHas(online, me) /\ online[me] = c
                    THEN MapDelete(online, me) ELSE online
     /\ rooms' = RoomsAfterDisconnect(me)
     /\ userRooms' = MapDelete(userRooms, me)
     /\ invites' = InvitesAfterDisconnect(me)
     /\ last' = Event("disconnect", c, me, NoRoomKey, NoInvite, TRUE, NoError, {},
                      {Emit("system:left-disconnected", r, Attached(r)) : r \in CascadeRooms(me)})
  /\ pc' = [pc EXCEPT ![c] = "idle"]
  /\ sockId' = [sockId EXCEPT ![c] = NoId]
  /\ voided' = VoidedBy(rooms', invites')
  /\ UNCHANGED <<sockRooms, nextInvite, consumed>>

Next ==
  \/ \E c \in Conns, id \in Ids \cup {NoId} : Middleware(c, id)
  \/ \E c \in Conns : Connection(c)
  \/ \E c \in Conns : Close(c)
  \/ \E c \in Conns : Disconnect(c)
  \/ \E c \in Conns, raw \in RawRoomIds : RoomExists(c, raw)
  \/ \E c \in Conns, raw \in RawRoomIds, password \in PwCreate : RoomCreate(c, raw, password)
  \/ \E c \in Conns, raw \in RawRoomIds, password \in PwJoin : RoomJoin(c, raw, password)
  \/ \E c \in Conns, raw \in RawRoomIds, peerId \in Ids \cup {NoId} : RoomInvite(c, raw, peerId)
  \/ \E c \in Conns, inviteId \in Tokens : RoomAccept(c, inviteId)
  \/ \E c \in Conns, inviteId \in Tokens : RoomReject(c, inviteId)
  \/ \E c \in Conns, raw \in RawRoomIds : RoomLeave(c, raw)
  \/ \E c \in Conns, raw \in RawRoomIds, textLen \in TextLens : RoomSend(c, raw, textLen)

Spec == Init /\ [][Next]_vars

\* ==== properties ==========================================================
\* identity x has an open, registered socket
Connected(x) == MapHas(online, x) /\ SocketLive(online[x])
\* room R is in the membership index of x
Indexed(x, roomId) == MapHas(userRooms, x) /\ roomId \in userRooms[x]

\* C1: in every reachable state, for every identity X and room key R, X is in
\* rooms[R].members if and only if R is in userRooms[X].
C1_MembershipIndexConsistent ==
  \A x \in Ids, roomId \in Rooms : inRoom(roomId, x) <=> Indexed(x, roomId)

\* C2: once the disconnect of identity X has been processed, X is a member of
\* no room and has no index entry, every room X was a member of got its
\* "left (disconnected)" notice, and each such room that X was the last
\* member of is gone.
C2_DisconnectRemovesEveryMembership ==
  [][\A c \in Conns : Disconnect(c) =>
       LET me == sockId[c]
           was == {r \in DOMAIN rooms : me \in rooms[r].members}
       IN /\ \A r \in DOMAIN rooms' : me \notin rooms'[r].members
          /\ ~MapHas(userRooms', me)
          /\ \A r \in was : \E e \in last'.out :
                              e.ev = "system:left-disconnected" /\ e.room = r
          /\ \A r \in was : rooms[r].members = {me} => ~MapHas(rooms', r)]_vars

\* C3: a stored room always has a member: room:create makes the creator a
\* member in the same step, a room is deleted only by the room:leave or
\* disconnect of its last member, and once that member is removed the
\* room is gone in the same step, so room:exists reports exists:false.
C3_RoomExistsIffNonEmpty ==
  /\ [](/\ \A r \in DOMAIN rooms : rooms[r].members # {}
        /\ (last.op = "room:create" /\ last.ok) => inRoom(last.room, last.me)
        /\ (last.op = "room:exists" /\ last.ok) =>
              (last.exists <=> \E x \in Ids : inRoom(last.room, x)))
  /\ [][\A r \in DOMAIN rooms :
          /\ ~MapHas(rooms', r) =>
               \E c \in Conns :
                 /\ rooms[r].members = {sockId[c]}
                 /\ Disconnect(c) \/ \E raw \in RawRoomIds : RoomLeave(c, raw)
          /\ \A c \in Conns :
               (/\ rooms[r].members = {sockId[c]}
                /\ \E e \in last'.out : e.room = r
                /\ Disconnect(c) \/ \E raw \in RawRoomIds : RoomLeave(c, raw))
               => ~MapHas(rooms', r)]_vars

C3_LastMemberLeft ==
  /\ last.op = "room:leave" /\ last.ok
  /\ \E e \in last.out : e.room = last.room
  /\ ~MapHas(rooms, last.room)

\* C4: at most one open socket is registered under an identity, the registry
\* entry of an identity with an open registered socket points at that socket,
\* and an attempt to connect under the identity of an open registered socket
\* is refused, at the middleware or in the connection handler (user:error,
\* then the socket is closed), without touching the registry.
C4_OneLiveConnectionPerIdentity ==
  /\ [](\A c \in Conns : SocketLive(c) =>
          /\ MapHas(online, sockId[c]) /\ online[sockId[c]] = c
          /\ \A d \in Conns : (SocketLive(d) /\ sockId[d] = sockId[c]) => d = c)
  /\ [][\A c \in Conns, d \in Conns :
          (/\ d # c
           /\ SocketLive(d)
           /\ \/ Middleware(c, sockId[d])
              \/ Connection(c) /\ sockId[c] = sockId[d])
          => /\ ~last'.ok /\ last'.error = ErrIdInUse
             /\ online' = online
             /\ pc'[c] = "idle"
             /\ Connection(c) => \E e \in last'.out : e.ev = "user:error" /\ e.to = {c}]_vars

C4_DuplicateRefused ==
  /\ last.op = "connection" /\ ~last.ok
  /\ \E d \in Conns : d # last.conn /\ SocketLive(d) /\ sockId[d] = last.me

\* C5: a socket that reaches the connection handler while the registry holds
\* its identity for a stale socket is registered: it becomes the registry
\* entry and receives user:registered.
C5_StaleHolderIsReplaced ==
  [][\A c \in Conns :
       (/\ Connection(c)
        /\ MapHas(online, sockId[c])
        /\ pc[online[sockId[c]]] = "stale")
       => /\ last'.ok
          /\ pc'[c] = "registered"
          /\ online'[sockId[c]] = c
          /\ \E e \in last'.out : e.ev = "user:registered" /\ e.to = {c}]_vars

\* C6 (as claimed): once an accept or reject by the target has used up token
\* T, every later room:accept or room:reject on T fails with INVITE_NOT_FOUND
\* and changes no room membership.
C6_UsedTokenAlwaysNotFound ==
  [][\A c \in Conns, t \in consumed :
       (RoomAccept(c, t) \/ RoomReject(c, t))
       => /\ ~last'.ok /\ last'.error = ErrInviteNotFound
          /\ rooms' = rooms]_vars

\* C6 (amended): once an accept or reject by the target has used up token T,
\* every later room:accept on T fails with INVITE_NOT_FOUND, every later
\* room:reject on T is acknowledged ok and notifies nobody, and neither
\* changes the rooms, the index, the broadcast groups or the invites.
C6_UsedTokenIsDead ==
  [][\A c \in Conns, t \in consumed :
       /\ RoomAccept(c, t) =>
            /\ ~last'.ok /\ last'.error = ErrInviteNotFound
            /\ UNCHANGED <<rooms, userRooms, sockRooms, invites>>
       /\ RoomReject(c, t) =>
            /\ last'.ok /\ last'.out = {}
            /\ UNCHANGED <<rooms, userRooms, sockRooms, invites>>]_vars

C6_SecondAcceptTried ==
  /\ last.op = "room:accept"
  /\ last.invite \in consumed
  /\ last.error = ErrInviteNotFound

\* C7: whenever room:send is acknowledged ok, the room:message reaches the
\* socket of every identity that is a member of the room and is connected,
\* the sender's included.
C7_MessageReachesEveryConnectedMember ==
  (last.op = "room:send" /\ last.ok) =>
    /\ inRoom(last.room, last.me)
    /\ \A x \in rooms[last.room].members :
         Connected(x) => \E e \in last.out : e.ev = "room:message" /\ online[x] \in e.to

C9_MemberJoinRejected ==
  [][\A c \in Conns, raw \in RawRoomIds, password \in PwJoin :
       (/\ last'.op = "room:join" /\ last'.conn = c
        /\ inRoom(NormRoomId(raw), sockId[c])
        /\ RoomJoin(c, raw, password))
       => /\ ~last'.ok /\ last'.error = ErrAlreadyInRoom
          /\ UNCHANGED <<rooms, userRooms, sockRooms>>]_vars

C9_MemberJoinedWithWrongPassword ==
  /\ last.op = "room:join" /\ last.error = ErrAlreadyInRoom
  /\ inRoom(last.room, last.me)
  /\ rooms[last.room].pass = "s" /\ last.password = "w"

\* C10 (as claimed): room:join by a non-member of an existing room succeeds
\* exactly when the password matches, for a locked room the stored password,
\* for an unlocked room an empty or missing one; otherwise it fails with
\* WRONG_PASSWORD and the membership is unchanged.
C10_JoinNeedsMatchingPassword ==
  [][\A c \in Conns, raw \in RawRoomIds, password \in PwJoin :
       (/\ last'.op = "room:join" /\ last'.conn = c
        /\ MapHas(rooms, NormRoomId(raw))
        /\ ~inRoom(NormRoomId(raw), sockId[c])
        /\ RoomJoin(c, raw, password))
       => LET r == rooms[NormRoomId(raw)]
              matches == IF r.pass = Null THEN password \in {Undef, ""}
                         ELSE password = r.pass
          IN /\ last'.ok <=> matches
             /\ ~matches => (last'.error = ErrWrongPassword /\ rooms' = rooms)]_vars

\* C10 (amended): room:join by a non-member of an existing room succeeds
\* exactly when the room is unlocked (any supplied password is ignored) or
\* the supplied password is the stored one; on success the caller is a
\* member, otherwise it fails with WRONG_PASSWORD and the membership is
\* unchanged.
C10_JoinPasswordOnlyWhenLocked ==
  [][\A c \in Conns, raw \in RawRoomIds, password \in PwJoin :
       (/\ last'.op = "room:join" /\ last'.conn = c
        /\ MapHas(rooms, NormRoomId(raw))
        /\ ~inRoom(NormRoomId(raw), sockId[c])
        /\ RoomJoin(c, raw, password))
       => LET r == rooms[NormRoomId(raw)]
              matches == r.pass = Null \/ password = r.pass
          IN /\ last'.ok <=> matches
             /\ matches => rooms'[NormRoomId(raw)].members = r.members \cup {sockId[c]}
             /\ ~matches => (last'.error = ErrWrongPassword /\ rooms' = rooms)]_vars

C10_UnlockedJoinedWithPassword ==
  /\ last.op = "room:join" /\ last.ok
  /\ ~last.locked /\ last.password = "w"
  /\ inRoom(last.room, last.me)

\* C11: room:invite reports the first failing check in the order room
\* exists, proposer is a member, target is not a member, target is online (so
\* a target that is a member and offline yields PEER_ALREADY_IN_ROOM, and a
\* non-member proposer the not-a-member error even for an offline target);
\* the invite is stored and room:incoming goes to the target's socket, and to
\* no other, only when all four pass.
C11_InviteChecksInOrder ==
  [][\A c \in Conns, raw \in RawRoomIds, peerId \in Ids :
       (/\ last'.op = "room:invite" /\ last'.conn = c
        /\ ~RoomIdMissing(raw)
        /\ RoomInvite(c, raw, peerId))
       => LET me == sockId[c]
              roomId == NormRoomId(raw)
              exists == MapHas(rooms, roomId)
              proposerIn == exists /\ me \in rooms[roomId].members
              targetIn == exists /\ peerId \in rooms[roomId].members
              targetOn == MapHas(online, peerId)
          IN /\ ~exists => last'.error = ErrRoomNotFound
             /\ (exists /\ ~proposerIn) => last'.error = ErrNotInRoom
             /\ (proposerIn /\ targetIn) => last'.error = ErrPeerAlreadyInRoom
             /\ (proposerIn /\ ~targetIn /\ ~targetOn) => last'.error = ErrPeerOffline
             /\ last'.ok <=> (proposerIn /\ ~targetIn /\ targetOn)
             /\ last'.ok =>
                  /\ ~MapHas(invites, last'.invite)
                  /\ invites' = MapSet(invites, last'.invite,
                                       [roomId |-> roomId, fromId |-> me, toId |-> peerId])
                  /\ \E e \in last'.out : e.ev = "room:incoming"
                  /\ \A e \in last'.out :
                       e.ev = "room:incoming" /\ e.to = ToSocket(online[peerId])
             /\ ~last'.ok => (invites' = invites /\ last'.out = {})]_vars

C11_MemberTargetOffline ==
  /\ last.op = "room:invite" /\ last.error = ErrPeerAlreadyInRoom
  /\ last.peer # last.me
  /\ inRoom(last.room, last.peer)
  /\ ~MapHas(online, last.peer)

\* C12: room:reject always acknowledges ok; for an unknown token or a caller
\* that is not the invite's target the invites, the rooms and the index are
\* unchanged and nothing is sent; for the target the invite is removed and
\* room:rejected goes to the proposer's socket, and to no other.
C12_RejectAlwaysOk ==
  [][\A c \in Conns, t \in Tokens :
       (/\ last'.op = "room:reject" /\ last'.conn = c
        /\ RoomReject(c, t))
       => /\ last'.ok
          /\ UNCHANGED <<rooms, userRooms, sockRooms>>
          /\ IF MapHas(invites, t) /\ invites[t].toId = sockId[c]
               THEN /\ invites' = MapDelete(invites, t)
                    /\ MapHas(online, invites[t].fromId)
                    /\ last'.out = {Emit("room:rejected", NoRoomKey,
                                         ToSocket(online[invites[t].fromId]))}
               ELSE /\ invites' = invites
                    /\ last'.out = {}]_vars

C12_ProposerNotified ==
  /\ last.op = "room:reject" /\ last.ok
  /\ last.invite \in consumed
  /\ \E e \in last.out : e.ev = "room:rejected" /\ e.to # {} /\ last.conn \notin e.to

\* C13: once the disconnect of identity X has been processed, no pending
\* invite has X as proposer or as target, and the handler has sent nothing but
\* the rooms' "left (disconnected)" notices: no room:rejected, no other
\* notice about an invite.
C13_DisconnectDropsInvitesSilently ==
  [][\A c \in Conns :
       (/\ last'.op = "disconnect" /\ last'.conn = c
        /\ Disconnect(c))
       => /\ \A t \in DOMAIN invites' :
               invites'[t].fromId # sockId[c] /\ invites'[t].toId # sockId[c]
          /\ \A t \in DOMAIN invites' : MapHas(invites, t) /\ invites'[t] = invites[t]
          /\ \A e \in last'.out : e.ev = "system:left-disconnected"]_vars

C13_InviteDroppedCounterpartOnline ==
  /\ last.op = "disconnect"
  /\ nextInvite > 0 /\ invites = EmptyMap /\ consumed = {}
  /\ \E x \in Ids \ {last.me} : Connected(x)
  /\ last.out = {}

\* C14: when the target accepts an invite whose room is gone, or whose
\* proposer or target is not in the registry, the acknowledgment is an error,
\* the invite is removed and no membership or index entry changes; when the
\* caller is not the invite's target the error is UNAUTHORIZED and the invite
\* stays pending.
C14_AcceptFailuresDiscardOrKeep ==
  [][\A c \in Conns, t \in DOMAIN invites :
       (/\ last'.op = "room:accept" /\ last'.conn = c
        /\ RoomAccept(c, t))
       => LET inv == invites[t]
              me == sockId[c]
          IN /\ inv.toId # me =>
                  /\ ~last'.ok /\ last'.error = ErrUnauthorized
                  /\ UNCHANGED <<invites, rooms, userRooms, sockRooms>>
             /\ (/\ inv.toId = me
                 /\ \/ ~MapHas(rooms, inv.roomId)
                    \/ ~MapHas(online, inv.fromId)
                    \/ ~MapHas(online, inv.toId)) =>
                  /\ ~last'.ok /\ last'.error # NoError
                  /\ invites' = MapDelete(invites, t)
                  /\ UNCHANGED <<rooms, userRooms, sockRooms>>]_vars

C14_AcceptedAfterRoomVanished ==
  /\ last.op = "room:accept" /\ ~last.ok
  /\ last.error = ErrRoomNotFound
  /\ ~MapHas(invites, last.invite)
  /\ last.invite \in consumed

\* C15: the end of a socket (its close, its "disconnect" handler, its refusal
\* in the connection handler) never removes or changes a registry entry that
\* points at another socket; when a duplicate is refused and closed, the
\* registry, the rooms, the index, the invites and the broadcast groups are
\* as before.
C15_EndOfSocketSparesOthers ==
  [][\A c \in Conns :
       /\ (/\ last'.conn = c
           /\ last'.op \in {"close", "disconnect", "connection"}
           /\ \/ Close(c)
              \/ Disconnect(c)
              \/ ~last'.ok /\ Connection(c))
          => \A x \in DOMAIN online :
               online[x] # c => (MapHas(online', x) /\ online'[x] = online[x])
       /\ (/\ last'.conn = c
           /\ last'.op = "connection" /\ ~last'.ok
           /\ Connection(c))
          => UNCHANGED <<online, rooms, userRooms, invites, sockRooms>>]_vars

C15_DuplicateRefusedHolderIntact ==
  /\ last.op = "connection" /\ ~last.ok
  /\ Connected(last.me) /\ online[last.me] # last.conn
  /\ \E r \in Rooms : inRoom(r, last.me) /\ Indexed(last.me, r)
                       /\ r \in sockRooms[online[last.me]]

\* the events a handler sends to a room's broadcast group
RoomBroadcasts ==
  {"room:message", "system:created", "system:joined", "system:joined-by-invite",
   "system:left", "system:left-disconnected"}

\* C16: in every reachable state, for every identity X and every room key R
\* of userRooms[X], room R exists and X is among its members.
C16_IndexPointsAtMembership ==
  \A x \in Ids, roomId \in Rooms : Indexed(x, roomId) => inRoom(roomId, x)

C16_IndexKeptWhenAnotherMemberDisconnects ==
  /\ last.op = "disconnect"
  /\ \E e \in last.out : e.ev = "system:left-disconnected" /\ e.to # {}
  /\ \E x \in Ids \ {last.me}, roomId \in Rooms :
       Indexed(x, roomId) /\ inRoom(roomId, x) /\ ~inRoom(roomId, last.me)

\* C17: in every reachable state a socket is in the broadcast group of room R
\* only if it is open and its identity is a member of R, and the message or
\* the notice a handler has just sent to R has reached only sockets of
\* members of R (also after R was emptied, deleted and created again).
C17_AttachedOnlyIfMember ==
  /\ \A c \in Conns : \A roomId \in sockRooms[c] :
       SocketLive(c) /\ inRoom(roomId, sockId[c])
  /\ \A e \in last.out :
       e.ev \in RoomBroadcasts =>
         \A c \in e.to : SocketLive(c) /\ inRoom(e.room, sockId[c])

C17_RecreatedRoomExcludesFormerMember ==
  /\ last.op = "room:create" /\ last.ok
  /\ \E t \in voided :
       /\ invites[t].roomId = last.room
       /\ invites[t].toId = last.me
       /\ Connected(invites[t].fromId)
       /\ sockRooms[online[invites[t].fromId]] = {}
       /\ ~inRoom(last.room, invites[t].fromId)
  /\ \E e \in last.out : e.ev \in RoomBroadcasts /\ e.to = {last.conn}

\* C18: whenever room:accept succeeds, the invite's proposer was a member of
\* the room right before the accept and the room has not been deleted since
\* the invite was issued.
C18_AcceptOnlyIntoTheProposersRoom ==
  [][\A c \in Conns, t \in DOMAIN invites :
       (/\ last'.op = "room:accept" /\ last'.conn = c /\ last'.ok
        /\ RoomAccept(c, t))
       => /\ inRoom(invites[t].roomId, invites[t].fromId)
          /\ t \notin voided]_vars

\* C19: in every reachable state the proposer and the target of every pending
\* invite are in the registry, and room:accept has not answered that one of
\* the two parties is offline.
C19_InvitePartiesRegistered ==
  /\ \A t \in DOMAIN invites :
       MapHas(online, invites[t].fromId) /\ MapHas(online, invites[t].toId)
  /\ last.error # ErrPartyOffline

C19_AcceptedWhileProposerSocketClosed ==
  /\ last.op = "room:accept" /\ last.ok
  /\ \E x \in last.members \ {last.me} :
       MapHas(online, x) /\ pc[online[x]] = "stale"

\* C20: whenever the registry is empty and no socket awaits its "disconnect"
\* handler, the rooms, the invites and the membership index are empty.
C20_NothingOutlivesItsUsers ==
  (/\ DOMAIN online = {}
   /\ \A c \in Conns : pc[c] \in {"idle", "admitted"})
  => /\ DOMAIN rooms = {}
     /\ DOMAIN invites = {}
     /\ DOMAIN userRooms = {}

====
